---- MODULE Spec2Model ----
(***************************************************************************)
(* A model of ISCP.py: the PII detector and redactor.                      *)
(*                                                                         *)
(* Text is modelled by TLA+ strings, read and built one character at a     *)
(* time (Len, SubSeq, \o).  A Python value is a record                     *)
(*     [t: its type, s: its text, n: its number, items: its elements];     *)
(* a dict is the sequence of its [k, v] items in insertion order.          *)
(*                                                                         *)
(* json.loads and json.dumps are modelled on the characters of the JSON    *)
(* text for the part of JSON the inputs below use: objects, arrays,        *)
(* strings with the escapes \" \\ \/ \n \t, integers, true, false, null,   *)
(* and the space as the only white space.  Floats, NaN/Infinity, \u        *)
(* escapes and non-ASCII text are outside the model, and integers are      *)
(* kept below 2^31.                                                        *)
(***************************************************************************)
EXTENDS Integers, Sequences, FiniteSets, TLC

VARIABLES
    infile,   \* the rows csv.reader yields, each a sequence of column strings
    pos,      \* how many rows of infile the reader has yielded so far
    out,      \* the rows written by csv.writer, in order
    pc,       \* where process_csv (or the function under test) stands
    exc,      \* the exception that left process_csv, "" while there is none
    log,      \* per data row written: what the classification evaluated
    arg,      \* the argument of the function under test (pure-function runs)
    ret       \* the results the function under test returned, in order

vars == <<infile, pos, out, pc, exc, log, arg, ret>>

(***************************************************************************)
(* Bounds of the model.                                                    *)
(***************************************************************************)
MaxRows == 2      \* data rows in an input file
MaxDigits == 13   \* longest run of digits in a matcher argument
MaxPasses == 2    \* times the Redactor is applied in a row

(***************************************************************************)
(* Characters.                                                             *)
(***************************************************************************)
Char(s, i) == IF i >= 1 /\ i <= Len(s) THEN SubSeq(s, i, i) ELSE ""

DIGITS == {"0", "1", "2", "3", "4", "5", "6", "7", "8", "9"}

UPPER == {"A", "B", "C", "D", "E", "F", "G", "H", "I", "J", "K", "L", "M",
          "N", "O", "P", "Q", "R", "S", "T", "U", "V", "W", "X", "Y", "Z"}

LOWER == {"a", "b", "c", "d", "e", "f", "g", "h", "i", "j", "k", "l", "m",
          "n", "o", "p", "q", "r", "s", "t", "u", "v", "w", "x", "y", "z"}

\* Every character of s[lo..hi] exists and is in class.
all_in(s, lo, hi, class) ==
    hi <= Len(s) /\ \A j \in lo..hi : Char(s, j) \in class

\* str.isdigit(): at least one character, and all of them digits.
isdigit(s) == s # "" /\ all_in(s, 1, Len(s), DIGITS)

(***************************************************************************)
(* Python values.                                                          *)
(***************************************************************************)
PyStr(s) == [t |-> "str", s |-> s, n |-> 0, items |-> <<>>]
PyInt(n) == [t |-> "int", s |-> "", n |-> n, items |-> <<>>]
PyNone == [t |-> "NoneType", s |-> "", n |-> 0, items |-> <<>>]
PyBool(b) == [t |-> "bool", s |-> "", n |-> IF b THEN 1 ELSE 0, items |-> <<>>]
PyList(xs) == [t |-> "list", s |-> "", n |-> 0, items |-> xs]
PyDict(kvs) == [t |-> "dict", s |-> "", n |-> 0, items |-> kvs]

Item(k, v) == [k |-> k, v |-> v]

\* bool(value): the truth value Python gives a value.
truthy(value) ==
    CASE value.t = "str" -> value.s # ""
      [] value.t = "int" -> value.n # 0
      [] value.t = "bool" -> value.n = 1
      [] value.t = "NoneType" -> FALSE
      [] OTHER -> value.items # <<>>

\* key in record, for a dict's items.
has_key(items, key) == \E i \in 1..Len(items) : items[i].k = key

\* record[key], for a key that is present.
getitem(items, key) ==
    items[CHOOSE i \in 1..Len(items) : items[i].k = key].v

\* record[key] = value: a present key keeps its place, a new key goes last.
setitem(items, key, value) ==
    IF has_key(items, key)
    THEN [i \in 1..Len(items) |->
            IF items[i].k = key THEN Item(key, value) ELSE items[i]]
    ELSE Append(items, Item(key, value))

(***************************************************************************)
(* json.loads.                                                             *)
(***************************************************************************)
Fail == [ok |-> FALSE, v |-> PyNone, i |-> 0]
Parsed(v, i) == [ok |-> TRUE, v |-> v, i |-> i]

RECURSIVE skip_ws(_, _)
skip_ws(s, i) == IF Char(s, i) = " " THEN skip_ws(s, i + 1) ELSE i

starts_with(s, i, lit) ==
    i + Len(lit) - 1 <= Len(s) /\ SubSeq(s, i, i + Len(lit) - 1) = lit

DigitVal(c) == CHOOSE d \in 0..9 : Char("0123456789", d + 1) = c

RECURSIVE int_of(_, _, _)
int_of(s, lo, hi) ==
    IF hi < lo THEN 0
    ELSE int_of(s, lo, hi - 1) * 10 + DigitVal(Char(s, hi))

RECURSIVE digits_end(_, _)
digits_end(s, i) ==
    IF Char(s, i) \in DIGITS THEN digits_end(s, i + 1) ELSE i

\* The decoder's number: -?(0|[1-9][0-9]*), read at i.
scan_number(s, i) ==
    LET neg == Char(s, i) = "-"
        j == IF neg THEN i + 1 ELSE i
        e == IF Char(s, j) = "0" THEN j + 1 ELSE digits_end(s, j)
        n == int_of(s, j, e - 1)
    IN  IF Char(s, j) \notin DIGITS THEN Fail
        ELSE Parsed(PyInt(IF neg THEN 0 - n ELSE n), e)

Unescape(e) ==
    CASE e = "n" -> "\n"
      [] e = "t" -> "\t"
      [] OTHER -> e

\* The decoder's string, read after its opening quote; acc is the text so far.
\* A raw control character inside a string is an error (strict mode).
RECURSIVE scan_string(_, _, _)
scan_string(s, i, acc) ==
    LET c == Char(s, i)
    IN  IF i > Len(s) THEN Fail
        ELSE IF c = "\"" THEN Parsed(PyStr(acc), i + 1)
        ELSE IF c = "\\"
             THEN IF Char(s, i + 1) \in {"\"", "\\", "/", "n", "t"}
                  THEN scan_string(s, i + 2, acc \o Unescape(Char(s, i + 1)))
                  ELSE Fail
        ELSE IF c \in {"\n", "\t"} THEN Fail
        ELSE scan_string(s, i + 1, acc \o c)

RECURSIVE scan_once(_, _)
RECURSIVE object_members(_, _, _)
RECURSIVE array_elements(_, _, _)

\* The members of an object, read at the opening quote of a key.
object_members(s, i, pairs) ==
    LET key == scan_string(s, i + 1, "")
        c == skip_ws(s, key.i)
        val == scan_once(s, skip_ws(s, c + 1))
        e == skip_ws(s, val.i)
        got == setitem(pairs, key.v.s, val.v)
    IN  IF Char(s, i) # "\"" THEN Fail
        ELSE IF ~key.ok THEN Fail
        ELSE IF Char(s, c) # ":" THEN Fail
        ELSE IF ~val.ok THEN Fail
        ELSE IF Char(s, e) = "}" THEN Parsed(PyDict(got), e + 1)
        ELSE IF Char(s, e) = "," THEN object_members(s, skip_ws(s, e + 1), got)
        ELSE Fail

\* The elements of an array, read at the first character of an element.
array_elements(s, i, xs) ==
    LET val == scan_once(s, i)
        e == skip_ws(s, val.i)
    IN  IF ~val.ok THEN Fail
        ELSE IF Char(s, e) = "]" THEN Parsed(PyList(Append(xs, val.v)), e + 1)
        ELSE IF Char(s, e) = ","
             THEN array_elements(s, skip_ws(s, e + 1), Append(xs, val.v))
        ELSE Fail

\* One JSON value, read at i.
scan_once(s, i) ==
    LET c == Char(s, i)
        j == skip_ws(s, i + 1)
    IN  CASE c = "\"" -> scan_string(s, i + 1, "")
          [] c = "{" -> IF Char(s, j) = "}" THEN Parsed(PyDict(<<>>), j + 1)
                        ELSE object_members(s, j, <<>>)
          [] c = "[" -> IF Char(s, j) = "]" THEN Parsed(PyList(<<>>), j + 1)
                        ELSE array_elements(s, j, <<>>)
          [] starts_with(s, i, "null") -> Parsed(PyNone, i + 4)
          [] starts_with(s, i, "true") -> Parsed(PyBool(TRUE), i + 4)
          [] starts_with(s, i, "false") -> Parsed(PyBool(FALSE), i + 5)
          [] c \in DIGITS \cup {"-"} -> scan_number(s, i)
          [] OTHER -> Fail

\* json.loads(s): ok is FALSE where Python raises json.JSONDecodeError.
json_loads(s) ==
    LET r == scan_once(s, skip_ws(s, 1))
    IN  IF r.ok /\ skip_ws(s, r.i) = Len(s) + 1
        THEN [ok |-> TRUE, v |-> r.v]
        ELSE [ok |-> FALSE, v |-> PyNone]

(***************************************************************************)
(* json.dumps.                                                             *)
(***************************************************************************)
RECURSIVE int_str(_)
int_str(n) ==
    IF n < 0 THEN "-" \o int_str(0 - n)
    ELSE IF n < 10 THEN Char("0123456789", n + 1)
    ELSE int_str(n \div 10) \o Char("0123456789", (n % 10) + 1)

EscapeChar(c) ==
    CASE c = "\"" -> "\\\""
      [] c = "\\" -> "\\\\"
      [] c = "\n" -> "\\n"
      [] c = "\t" -> "\\t"
      [] OTHER -> c

RECURSIVE escape(_, _)
escape(s, i) ==
    IF i > Len(s) THEN "" ELSE EscapeChar(Char(s, i)) \o escape(s, i + 1)

quoted(s) == "\"" \o escape(s, 1) \o "\""

RECURSIVE encode(_, _, _)
RECURSIVE encode_items(_, _, _, _, _)

\* The elements (of a list) or members (of a dict) from index i on.
encode_items(v, i, item_sep, key_sep, is_dict) ==
    IF i > Len(v.items) THEN ""
    ELSE (IF i > 1 THEN item_sep ELSE "")
         \o (IF is_dict
             THEN quoted(v.items[i].k) \o key_sep
                  \o encode(v.items[i].v, item_sep, key_sep)
             ELSE encode(v.items[i], item_sep, key_sep))
         \o encode_items(v, i + 1, item_sep, key_sep, is_dict)

\* The JSON text of a value under the given separators.
encode(v, item_sep, key_sep) ==
    CASE v.t = "str" -> quoted(v.s)
      [] v.t = "int" -> int_str(v.n)
      [] v.t = "bool" -> IF v.n = 1 THEN "true" ELSE "false"
      [] v.t = "NoneType" -> "null"
      [] v.t = "list" -> "[" \o encode_items(v, 1, item_sep, key_sep, FALSE) \o "]"
      [] OTHER -> "{" \o encode_items(v, 1, item_sep, key_sep, TRUE) \o "}"

\* json.dumps(v) with its default separators.
json_dumps(v) == encode(v, ", ", ": ")

(***************************************************************************)
(* is_standalone_pii: the pattern table and re.match.                      *)
(***************************************************************************)
\* The pattern's "$": the end of the string, or just before a line break
\* that is the string's last character.
dollar(s, i) == i = Len(s) + 1 \/ (i = Len(s) /\ Char(s, i) = "\n")

\* ^\d{n}$
re_digits(s, n) == all_in(s, 1, n, DIGITS) /\ dollar(s, n + 1)

\* ^P[A-Z0-9]{7,8}$|^[A-Z]{1,2}\d{7,8}$
re_passport(s) ==
    \/ /\ Char(s, 1) = "P"
       /\ \E n \in {7, 8} :
            all_in(s, 2, n + 1, UPPER \cup DIGITS) /\ dollar(s, n + 2)
    \/ \E m \in {1, 2}, n \in {7, 8} :
            /\ all_in(s, 1, m, UPPER)
            /\ all_in(s, m + 1, m + n, DIGITS)
            /\ dollar(s, m + n + 1)

UPI_CHARS == LOWER \cup UPPER \cup DIGITS \cup {".", "-", "_"}

\* ^[a-zA-Z0-9.\-_]+@[a-zA-Z0-9.\-_]+$
re_upi_id(s) ==
    \E p \in 1..Len(s), q \in 1..Len(s) :
        /\ all_in(s, 1, p, UPI_CHARS)
        /\ Char(s, p + 1) = "@"
        /\ all_in(s, p + 2, p + 1 + q, UPI_CHARS)
        /\ dollar(s, p + q + 2)

PII_TYPES == {"phone", "contact", "aadhar", "passport", "upi_id"}

\* re.match(pii_types[key], s), for a key of the table.
pii_match(key, s) ==
    CASE key = "phone" -> re_digits(s, 10)
      [] key = "contact" -> re_digits(s, 10)
      [] key = "aadhar" -> re_digits(s, 12)
      [] key = "passport" -> re_passport(s)
      [] key = "upi_id" -> re_upi_id(s)

is_standalone_pii(key, value) ==
    IF value.t # "str" \/ ~truthy(value) THEN FALSE
    ELSE key \in PII_TYPES /\ pii_match(key, value.s)

(***************************************************************************)
(* is_combinatorial_pii.                                                   *)
(***************************************************************************)
COMBINATORIAL_KEYS == {"email", "address", "ip_address", "device_id"}

\* A variant: either of first_name and last_name is taken for a full name.
has_full_name_either(record) ==
    \/ has_key(record, "first_name") \/ has_key(record, "last_name")
    \/ has_key(record, "name")

has_full_name(record) ==
    \/ has_key(record, "first_name") /\ has_key(record, "last_name")
    \/ has_key(record, "name")

pii_count(record) ==
    (IF has_full_name(record) THEN 1 ELSE 0)
    + Cardinality({key \in COMBINATORIAL_KEYS :
                     has_key(record, key) /\ truthy(getitem(record, key))})

is_combinatorial_pii(record) == pii_count(record) >= 2

(***************************************************************************)
(* redact_data.                                                            *)
(***************************************************************************)
REDACTED == "[REDACTED_PII]"

SIMPLE_KEYS == {"name", "address", "email", "ip_address", "aadhar", "passport",
                "upi_id", "device_id", "first_name", "last_name"}

MASK_KEYS == {"phone", "contact"}

\* f"{value[:2]}XXXXX{value[-3:]}", for a string of at least three characters
mask(s) == SubSeq(s, 1, 2) \o "XXXXX" \o SubSeq(s, Len(s) - 2, Len(s))

\* A variant: first_name and last_name are missing from the list of keys.
redact_data_short_list(key, value) ==
    IF key \in SIMPLE_KEYS \ {"first_name", "last_name"} THEN PyStr(REDACTED)
    ELSE IF /\ key \in MASK_KEYS
            /\ value.t = "str" /\ Len(value.s) = 10 /\ isdigit(value.s)
         THEN PyStr(mask(value.s))
    ELSE value

\* A variant: any string is masked, and the mask is put in after the first
\* two characters instead of replacing the middle ones.
redact_data_unguarded(key, value) ==
    IF key \in SIMPLE_KEYS THEN PyStr(REDACTED)
    ELSE IF key \in MASK_KEYS /\ value.t = "str"
         THEN LET s == value.s
                  head == IF Len(s) >= 2 THEN SubSeq(s, 1, 2) ELSE s
                  rest == IF Len(s) > 2 THEN SubSeq(s, 3, Len(s)) ELSE ""
              IN  PyStr(head \o "XXXXX" \o rest)
    ELSE value

redact_data(key, value) ==
    IF key \in SIMPLE_KEYS THEN PyStr(REDACTED)
    ELSE IF /\ key \in MASK_KEYS
            /\ value.t = "str" /\ Len(value.s) = 10 /\ isdigit(value.s)
         THEN PyStr(mask(value.s))
    ELSE value

(***************************************************************************)
(* process_csv, one record: classify, then redact.                         *)
(***************************************************************************)
\* The loop over the record's items, left at the first standalone match.
RECURSIVE standalone_scan(_, _)
standalone_scan(record, i) ==
    IF i > Len(record) THEN FALSE
    ELSE IF is_standalone_pii(record[i].k, record[i].v) THEN TRUE
    ELSE standalone_scan(record, i + 1)

\* A variant: the break is taken after the first field, matched or not.
classify_first_field(record) ==
    LET hit == Len(record) >= 1 /\ is_standalone_pii(record[1].k, record[1].v)
    IN  [standalone |-> hit,
         comb_called |-> ~hit,
         is_pii |-> IF ~hit THEN is_combinatorial_pii(record) ELSE TRUE]

\* What the classification did: whether a field matched, whether
\* is_combinatorial_pii was called, and the resulting is_pii.
classify(record) ==
    LET hit == standalone_scan(record, 1)
    IN  [standalone |-> hit,
         comb_called |-> ~hit,
         is_pii |-> IF ~hit THEN is_combinatorial_pii(record) ELSE TRUE]

TARGET_KEYS == {"name", "email", "address", "ip_address", "device_id",
                "first_name", "last_name", "phone", "contact", "aadhar",
                "passport", "upi_id"}

\* The Redactor: the copy of the record with every known PII field rewritten.
redact(record) ==
    [i \in 1..Len(record) |->
        IF record[i].k \in TARGET_KEYS
        THEN Item(record[i].k, redact_data(record[i].k, record[i].v))
        ELSE record[i]]

\* A variant: the copy is rewritten whether or not the record is flagged.
redacted_data_always(record, is_pii) == redact(record)

\* redacted_data: the copy, rewritten only when the record is flagged.
redacted_data(record, is_pii) == IF is_pii THEN redact(record) ELSE record

\* str(is_pii)
str_bool(b) == IF b THEN "True" ELSE "False"

(***************************************************************************)
(* process_csv: the rows it writes.                                        *)
(***************************************************************************)
OUT_HEADER == <<"record_id", "redacted_data_json", "is_pii">>

\* writer.writerow(row)
writerow(f, row) == Append(f, row)

\* A variant: the raw payload is serialized again before it is written.
malformed_row_reencoded(row) == <<row[1], json_dumps(PyStr(row[2])), "False">>

\* The row written for a payload json.loads rejects.
malformed_row(row) == <<row[1], row[2], "False">>

\* The row written for a payload that is a JSON object.
record_row(row) ==
    LET original_record == json_loads(row[2]).v.items
        is_pii == classify(original_record).is_pii
    IN  <<row[1],
          json_dumps(PyDict(redacted_data(original_record, is_pii))),
          str_bool(is_pii)>>

NotParsed == [parsed |-> FALSE, standalone |-> FALSE, comb_called |-> FALSE]

Evaluated(record) ==
    [parsed |-> TRUE,
     standalone |-> classify(record).standalone,
     comb_called |-> classify(record).comb_called]

(***************************************************************************)
(* process_csv: its steps.  The files are open; the reader yields infile.  *)
(***************************************************************************)
\* The header is written; the input has no row at all: return.
EmptyFile ==
    /\ pc = "open"
    /\ infile = <<>>
    /\ out' = writerow(out, OUT_HEADER)
    /\ pc' = "returned"
    /\ UNCHANGED <<infile, pos, exc, log, arg, ret>>

\* A variant: the header is written and no input row is skipped.
SkipHeader_missing ==
    /\ pc = "open"
    /\ infile # <<>>
    /\ out' = writerow(out, OUT_HEADER)
    /\ pos' = 0
    /\ pc' = "loop"
    /\ UNCHANGED <<infile, exc, log, arg, ret>>

\* The header is written and the first input row is skipped.
SkipHeader ==
    /\ pc = "open"
    /\ infile # <<>>
    /\ out' = writerow(out, OUT_HEADER)
    /\ pos' = 1
    /\ pc' = "loop"
    /\ UNCHANGED <<infile, exc, log, arg, ret>>

HasRow == pc = "loop" /\ pos < Len(infile)

\* row[0] or row[1] does not exist: IndexError, raised outside the try.
RowIndexError ==
    /\ HasRow
    /\ Len(infile[pos + 1]) < 2
    /\ pos' = pos + 1
    /\ exc' = "IndexError"
    /\ pc' = "raised"
    /\ UNCHANGED <<infile, out, log, arg, ret>>

\* json.loads raises JSONDecodeError: the raw row is written.
RowMalformed ==
    /\ HasRow
    /\ Len(infile[pos + 1]) >= 2
    /\ ~json_loads(infile[pos + 1][2]).ok
    /\ pos' = pos + 1
    /\ out' = writerow(out, malformed_row(infile[pos + 1]))
    /\ log' = Append(log, NotParsed)
    /\ UNCHANGED <<infile, pc, exc, arg, ret>>

\* The payload is JSON but no object: data.copy() or .items() raises
\* AttributeError, which the except clause does not name.
RowNotObject ==
    /\ HasRow
    /\ Len(infile[pos + 1]) >= 2
    /\ json_loads(infile[pos + 1][2]).ok
    /\ json_loads(infile[pos + 1][2]).v.t # "dict"
    /\ pos' = pos + 1
    /\ exc' = "AttributeError"
    /\ pc' = "raised"
    /\ UNCHANGED <<infile, out, log, arg, ret>>

\* The payload is a JSON object: classify, redact, serialize, write.
RowRecord ==
    /\ HasRow
    /\ Len(infile[pos + 1]) >= 2
    /\ json_loads(infile[pos + 1][2]).ok
    /\ json_loads(infile[pos + 1][2]).v.t = "dict"
    /\ pos' = pos + 1
    /\ out' = writerow(out, record_row(infile[pos + 1]))
    /\ log' = Append(log, Evaluated(json_loads(infile[pos + 1][2]).v.items))
    /\ UNCHANGED <<infile, pc, exc, arg, ret>>

\* The reader is exhausted: the loop and process_csv end.
EndOfInput ==
    /\ pc = "loop"
    /\ pos = Len(infile)
    /\ pc' = "returned"
    /\ UNCHANGED <<infile, pos, out, exc, log, arg, ret>>

Next ==
    \/ EmptyFile
    \/ SkipHeader
    \/ RowIndexError
    \/ RowMalformed
    \/ RowNotObject
    \/ RowRecord
    \/ EndOfInput

(***************************************************************************)
(* Input files.                                                            *)
(***************************************************************************)
\* First rows: a header, and a first row that looks like a data row.
FirstRows ==
    {<<"record_id", "data_json">>,
     <<"0", "{\"name\": \"N\", \"email\": \"n@x.in\"}">>}

\* Data rows of every kind the loop distinguishes.
DataRows ==
    {<<"1", "{\"phone\":\"9876543210\",\"email\":\"a@b.com\"}">>,
     <<"2", "{\"city\":\"Metropolis\"}">>,
     <<"3", "not-json">>,
     <<"4">>,
     <<>>,
     <<"6", "123">>,
     <<"7", "[]">>,
     <<"8", "{\"name\": \"\", \"device_id\": \"d1\", \"age\": 30}">>,
     <<"9", "{\"contact\": \"9876543210\\n\"}">>,
     <<"1", "{\"phone\": \"98XXXXX210\"}">>,
     <<"11", "{\"phone\": 1234567890, \"note\": null}", "extra">>,
     <<"12", "{\"email\": \"a@b.com\",}">>}

SeqsUpTo(S, n) == UNION {[1..m -> S] : m \in 0..n}

Files ==
    {<<>>} \cup {<<h>> \o d : h \in FirstRows, d \in SeqsUpTo(DataRows, MaxRows)}

Init ==
    /\ infile \in Files
    /\ pos = 0
    /\ out = <<>>
    /\ pc = "open"
    /\ exc = ""
    /\ log = <<>>
    /\ arg = <<>>
    /\ ret = <<>>

Spec == Init /\ [][Next]_vars

(***************************************************************************)
(* One record per file, drawn from a family of records.                    *)
(***************************************************************************)
KEYS == TARGET_KEYS \cup {"city", "Phone"}

STRINGS ==
    {"9876543210", "9876543210\n", "12XXXXX345", "987654321", "98765432101",
     "123456789012", "123456789012\n", "P1234567", "AB1234567", "a@b.com",
     "[REDACTED_PII]", "", "x", "say \"hi\""}

VALUES ==
    {PyStr(s) : s \in STRINGS}
    \cup {PyInt(1234567890), PyInt(0), PyNone, PyBool(TRUE),
          PyList(<<>>), PyList(<<PyStr("x")>>)}

FirstFields == {Item(k, v) : k \in KEYS, v \in VALUES}

MoreFields ==
    {Item("email", PyStr("a@b.com")), Item("email", PyStr("")),
     Item("address", PyStr("x")), Item("name", PyStr("")),
     Item("first_name", PyStr("A")), Item("last_name", PyStr("B")),
     Item("phone", PyStr("9876543210")), Item("contact", PyStr("9876543210\n")),
     Item("city", PyStr("x")), Item("device_id", PyInt(0)),
     Item("ip_address", PyNone), Item("upi_id", PyStr("a@b"))}

\* Field lists: none, one, two, and the three name keys with one more field.
FieldLists ==
    {<<>>}
    \cup {<<f>> : f \in FirstFields}
    \cup {<<f, g>> : f \in FirstFields, g \in MoreFields}
    \cup {<<Item("first_name", PyStr("A")), Item("last_name", PyStr("")), g>> :
            g \in MoreFields}
    \cup {<<Item("name", PyStr("N")), Item("first_name", PyStr("A")),
            Item("last_name", PyStr("B")), g>> : g \in MoreFields}

\* The payload an exporter writes for a field list: compact JSON.  A key
\* listed twice is written twice.
payload_of(fields) == encode(PyDict(fields), ",", ":")

\* The dict a field list stands for.
RECURSIVE dict_of(_, _)
dict_of(fields, i) ==
    IF i = 0 THEN <<>>
    ELSE setitem(dict_of(fields, i - 1), fields[i].k, fields[i].v)

\* Payloads cut short: every proper prefix of a well-formed payload.
Truncations(p) == {SubSeq(p, 1, n) : n \in 0..(Len(p) - 1)}

BrokenPayloads ==
    Truncations("{\"phone\": \"9876543210\", \"email\": \"a\\n@b.com\", \"n\": [1, null]}")
    \cup {"not-json", "{a:1}", "{'phone': '9876543210'}", "{\"a\": 1,}",
          "{\"phone\": \"9876543210\"} x", "{\"a\": \"line\nbreak\"}",
          "{\"a\": \"\\q\"}", "[1 2]", "0123", "nul", "-"}

OddRows ==
    {<<"4">>, <<>>, <<"6", "123">>, <<"6", "\"9876543210\"">>,
     <<"6", "null">>, <<"6", "[{\"phone\": \"9876543210\"}]">>}
    \cup {<<"3", p>> : p \in BrokenPayloads}

RecordFiles ==
    {<<>>}
    \cup {<<<<"record_id", "data_json">>, r>> : r \in OddRows}
    \cup {<<<<"record_id", "data_json">>, <<"7", payload_of(fs)>>>> :
            fs \in FieldLists}

InitRecord ==
    /\ infile \in RecordFiles
    /\ pos = 0
    /\ out = <<>>
    /\ pc = "open"
    /\ exc = ""
    /\ log = <<>>
    /\ arg = <<>>
    /\ ret = <<>>

SpecRecord == InitRecord /\ [][Next]_vars

(***************************************************************************)
(* is_standalone_pii applied to one (key, value).                          *)
(***************************************************************************)
DigitRun(n) == SubSeq("98765432101234567890", 1, n)

MatchStrings ==
    {p \o DigitRun(n) \o s :
        p \in {"", "a", " "}, n \in 0..MaxDigits,
        s \in {"", "\n", "a", " ", "\n\n", "\n1"}}

MatchArgs ==
    {Item(k, v) : k \in KEYS, v \in VALUES \cup {PyStr(s) : s \in MatchStrings}}

InitMatch ==
    /\ arg \in MatchArgs
    /\ ret = <<>>
    /\ pc = "call"
    /\ infile = <<>> /\ pos = 0 /\ out = <<>> /\ exc = "" /\ log = <<>>

Match ==
    /\ pc = "call"
    /\ ret' = Append(ret, is_standalone_pii(arg.k, arg.v))
    /\ pc' = "return"
    /\ UNCHANGED <<infile, pos, out, exc, log, arg>>

SpecMatch == InitMatch /\ [][Match]_vars

(***************************************************************************)
(* is_combinatorial_pii applied to one record.                             *)
(***************************************************************************)
COMB_FIELDS == <<"name", "first_name", "last_name",
                 "email", "address", "ip_address", "device_id", "city">>

\* What a record holds under a key: nothing, or one of these values.
COMB_VALUES == {PyStr("x"), PyStr(""), PyNone}

Absent == [t |-> "absent", s |-> "", n |-> 0, items |-> <<>>]

Choices == [1..Len(COMB_FIELDS) -> {Absent} \cup COMB_VALUES]

RECURSIVE chosen(_, _)
chosen(c, i) ==
    IF i = 0 THEN <<>>
    ELSE IF c[i] = Absent THEN chosen(c, i - 1)
    ELSE Append(chosen(c, i - 1), Item(COMB_FIELDS[i], c[i]))

InitEvaluate ==
    /\ arg \in {chosen(c, Len(COMB_FIELDS)) : c \in Choices}
    /\ ret = <<>>
    /\ pc = "call"
    /\ infile = <<>> /\ pos = 0 /\ out = <<>> /\ exc = "" /\ log = <<>>

Evaluate ==
    /\ pc = "call"
    /\ ret' = Append(ret, is_combinatorial_pii(arg))
    /\ pc' = "return"
    /\ UNCHANGED <<infile, pos, out, exc, log, arg>>

SpecEvaluate == InitEvaluate /\ [][Evaluate]_vars

(***************************************************************************)
(* The Redactor applied to a record, and again to its result.              *)
(***************************************************************************)
InitRedact ==
    /\ arg \in {dict_of(fs, Len(fs)) : fs \in FieldLists}
    /\ ret = <<>>
    /\ pc = "call"
    /\ infile = <<>> /\ pos = 0 /\ out = <<>> /\ exc = "" /\ log = <<>>

Redact ==
    /\ pc = "call"
    /\ Len(ret) < MaxPasses
    /\ ret' = Append(ret, redact(IF ret = <<>> THEN arg ELSE ret[Len(ret)]))
    /\ UNCHANGED <<infile, pos, out, pc, exc, log, arg>>

SpecRedact == InitRedact /\ [][Redact]_vars

(***************************************************************************)
(* The claims.                                                             *)
(*                                                                         *)
(* The k-th data row of the input is infile[k + 1], the row written for    *)
(* it is out[k + 1], and what its classification evaluated is log[k].      *)
(***************************************************************************)
Written == 1..(Len(out) - 1)

InRow(k) == infile[k + 1]
OutRow(k) == out[k + 1]

\* The record a data row carries, and the record written for it.
InRecord(k) == json_loads(InRow(k)[2]).v.items
OutRecord(k) == json_loads(OutRow(k)[2]).v.items

Flagged(k) == OutRow(k)[3] = "True"

\* A string of exactly n decimal digits and nothing else.
ExactDigits(v, n) ==
    /\ v.t = "str"
    /\ Len(v.s) = n
    /\ \A i \in 1..n : SubSeq(v.s, i, i) \in DIGITS

StandaloneFields(record) ==
    {i \in 1..Len(record) : is_standalone_pii(record[i].k, record[i].v)}

\* The signals the Combinatorial Evaluator is to count.
NameSignal(record) ==
    LET keys == {record[i].k : i \in 1..Len(record)}
    IN  IF "name" \in keys \/ {"first_name", "last_name"} \subseteq keys
        THEN 1 ELSE 0

WeakSignals(record) ==
    Cardinality({i \in 1..Len(record) :
        /\ record[i].k \in {"email", "address", "ip_address", "device_id"}
        /\ truthy(record[i].v)})

Signals(record) == NameSignal(record) + WeakSignals(record)

MarkerNames ==
    {"name", "email", "address", "ip_address", "device_id", "first_name",
     "last_name", "aadhar", "passport", "upi_id"}

TargetNames == MarkerNames \cup {"phone", "contact"}

\* C1: every input data row, whatever it holds, raises no exception and gets
\* exactly one output row: after the header, as many rows are written as
\* were read.
C1_EveryRowGetsARow ==
    /\ exc = ""
    /\ pc \in {"loop", "returned"} /\ pos >= 1 => Len(out) = pos

\* C2: a row whose payload json.loads rejects is written as (record_id, the
\* raw payload unchanged, "False"), and nothing was classified for it.
C2_MalformedPassesThrough ==
    \A k \in Written :
        ~json_loads(InRow(k)[2]).ok =>
            /\ OutRow(k) = <<InRow(k)[1], InRow(k)[2], "False">>
            /\ log[k] = NotParsed

C2_Witness ==
    \E k \in Written :
        /\ InRow(k)[2] = "not-json"
        /\ OutRow(k) = <<"3", "not-json", "False">>

\* C3: for a parsed record the flag is True exactly when, on the original
\* values, some field matches standalone or at least two signals are
\* counted; the Combinatorial Evaluator runs only when no field matched.
C3_FlagIffEvidence ==
    \A k \in Written :
        log[k].parsed =>
            /\ Flagged(k) <=> \/ StandaloneFields(InRecord(k)) # {}
                              \/ Signals(InRecord(k)) >= 2
            /\ OutRow(k)[3] \in {"True", "False"}
            /\ log[k].standalone <=> StandaloneFields(InRecord(k)) # {}
            /\ log[k].comb_called <=> StandaloneFields(InRecord(k)) = {}

\* A record flagged by a standalone match in its second field, which also
\* counts fewer than two signals.
C3_Witness ==
    \E k \in Written :
        /\ log[k].parsed /\ Flagged(k) /\ log[k].standalone
        /\ StandaloneFields(InRecord(k)) = {2}
        /\ Signals(InRecord(k)) < 2

\* C4: the written record has the input record's keys in the same order, a
\* field outside the target set keeps its value, and an unflagged record
\* keeps every value.
C4_FrameOfRedaction ==
    \A k \in Written :
        log[k].parsed =>
            /\ json_loads(OutRow(k)[2]).ok
            /\ json_loads(OutRow(k)[2]).v.t = "dict"
            /\ Len(OutRecord(k)) = Len(InRecord(k))
            /\ \A i \in 1..Len(InRecord(k)) :
                /\ OutRecord(k)[i].k = InRecord(k)[i].k
                /\ InRecord(k)[i].k \notin TargetNames \/ ~Flagged(k)
                      => OutRecord(k)[i].v = InRecord(k)[i].v

\* A flagged record whose first field, outside the target set, is kept and
\* whose second field is rewritten.
C4_Witness ==
    \E k \in Written :
        /\ log[k].parsed /\ Flagged(k)
        /\ Len(InRecord(k)) = 2
        /\ InRecord(k)[1].k = "city"
        /\ OutRecord(k)[1] = InRecord(k)[1]
        /\ OutRecord(k)[2].v # InRecord(k)[2].v

\* C5: in a flagged record every field with one of the ten marker names is
\* written as the marker, and a phone or contact field is written masked
\* when it is a string of exactly 10 digits and unchanged otherwise.
C5_RedactionValues ==
    \A k \in Written :
        log[k].parsed /\ Flagged(k) =>
            \A i \in 1..Len(InRecord(k)) :
                LET key == InRecord(k)[i].k
                    v == InRecord(k)[i].v
                    w == OutRecord(k)[i].v
                IN  /\ key \in MarkerNames => w = PyStr("[REDACTED_PII]")
                    /\ key \in {"phone", "contact"} /\ ExactDigits(v, 10) =>
                          w = PyStr(SubSeq(v.s, 1, 2) \o "XXXXX"
                                    \o SubSeq(v.s, 8, 10))
                    /\ key \in {"phone", "contact"} /\ ~ExactDigits(v, 10) =>
                          w = v

\* A record flagged by the combinatorial rule whose first field is not a
\* string and is written as the marker.
C5_Witness ==
    \E k \in Written :
        /\ log[k].parsed /\ Flagged(k) /\ log[k].comb_called
        /\ InRecord(k)[1].k = "name"
        /\ InRecord(k)[1].v.t # "str"
        /\ OutRecord(k)[1].v = PyStr("[REDACTED_PII]")

\* C6: for phone and contact (N = 10) and aadhar (N = 12) the matcher is
\* true exactly for the strings of N decimal digits and nothing else; it is
\* false for a value that is no string or is empty, and for a field name
\* outside the five pattern fields.
C6_FullStringMatch ==
    pc = "return" /\ Len(ret) = 1 =>
        /\ arg.k \in {"phone", "contact"} => ret[1] = ExactDigits(arg.v, 10)
        /\ arg.k = "aadhar" => ret[1] = ExactDigits(arg.v, 12)
        /\ arg.v.t # "str" \/ arg.v.s = "" => ret[1] = FALSE
        /\ arg.k \notin {"phone", "contact", "aadhar", "passport", "upi_id"}
              => ret[1] = FALSE

\* C7: the Combinatorial Evaluator is true exactly when at least two
\* signals are counted: one for a full name by key presence alone, one for
\* each of email, address, ip_address, device_id present with a truthy value.
C7_TwoSignals ==
    pc = "return" /\ Len(ret) = 1 => ret[1] = (Signals(arg) >= 2)

\* A name present with a null value beside first_name and last_name: one
\* signal, which with one truthy weak field makes two.
C7_Witness ==
    /\ pc = "return" /\ Len(ret) = 1 /\ ret[1]
    /\ has_key(arg, "name") /\ getitem(arg, "name") = PyNone
    /\ has_key(arg, "first_name") /\ has_key(arg, "last_name")
    /\ WeakSignals(arg) = 1

\* C8: the Redactor applied to its own result gives that result again.
C8_RedactIdempotent ==
    \A i \in 2..Len(ret) : ret[i] = ret[1]

\* A 10-digit phone masked by the first pass and left alone by the second,
\* beside a field written as the marker.
C8_Witness ==
    /\ Len(ret) >= 2
    /\ has_key(arg, "phone") /\ getitem(arg, "phone") = PyStr("9876543210")
    /\ getitem(ret[2], "phone") = PyStr("98XXXXX210")
    /\ has_key(arg, "email") /\ getitem(ret[2], "email") = PyStr("[REDACTED_PII]")

\* C9: after the fixed header the rows written are, one for one and in
\* order, those of a prefix of the input data rows (the first input row is
\* always skipped), each carrying its data row's record_id, and rows with
\* the same payload get the same payload and flag.
C9_OutputFollowsInput ==
    /\ pc # "open" => Len(out) >= 1 /\ out[1] = OUT_HEADER
    /\ Len(out) > 1 => Len(out) <= pos /\ pos <= Len(infile)
    /\ pc = "loop" => Len(out) = pos
    /\ \A k \in Written :
        /\ Len(InRow(k)) >= 2
        /\ OutRow(k)[1] = InRow(k)[1]
        /\ OutRow(k) = IF log[k].parsed THEN record_row(InRow(k))
                       ELSE malformed_row(InRow(k))
    /\ \A j, k \in Written :
        InRow(j)[2] = InRow(k)[2] =>
            OutRow(j)[2] = OutRow(k)[2] /\ OutRow(j)[3] = OutRow(k)[3]

\* Two rows written in input order after a first row that looks like a
\* data row and was skipped.
C9_Witness ==
    /\ pc = "returned" /\ Len(out) = 3
    /\ infile[1][1] = "0"
    /\ infile[2][1] = "2" /\ out[2][1] = "2"
    /\ infile[3][1] = "1" /\ out[3][1] = "1"

\* C10: no field of the record written for a flagged record still satisfies
\* the Standalone Matcher.
C10_NoMatchSurvives ==
    \A k \in Written :
        log[k].parsed /\ Flagged(k) => StandaloneFields(OutRecord(k)) = {}

====
